---- MODULE Spec2Model ----
(***************************************************************************)
(* Asset preparation pipeline of the exhibit graphics generator:           *)
(* asset_pipeline.py (cache keys, AssetCache, AssetPipeline) and           *)
(* color_management.py (CMYKColor.from_rgb, ensure_cmyk_image,             *)
(* create_cmyk_gradient_image, apply_cmyk_vignette).                       *)
(*                                                                         *)
(* A path is a sequence of tokens: single characters, a directory prefix,  *)
(* or a hex digest (one token, it holds no "." and no upper-case letter).  *)
(* Text that is only hashed (the data of a cache key) is a string.         *)
(***************************************************************************)
EXTENDS Integers, Sequences, FiniteSets, TLC

VARIABLES fs, pipeline, icc, disk, last, ncalls, hist, kreq, kres, par

vars == <<fs, pipeline, icc, disk, last, ncalls, hist, kreq, kres, par>>

-----------------------------------------------------------------------------
(* Bounds *)

MaxCalls == 3
MaxLibCalls == 2
MaxErrCalls == 2
ColorGrid == 4
MaxCallers == 2
MaxHeight == 3
MaxWidth == 2
MaxDim == 3

-----------------------------------------------------------------------------
(* Strings and paths *)

None == <<"<None>">>

UpperToLower == [c \in {"P", "N", "G", "J", "T", "I", "F", "E"} |->
                   CASE c = "P" -> "p" [] c = "N" -> "n" [] c = "G" -> "g"
                     [] c = "J" -> "j" [] c = "T" -> "t" [] c = "I" -> "i"
                     [] c = "F" -> "f" [] c = "E" -> "e"]

\* str.lower() on a path
lower(s) == [i \in 1..Len(s) |-> IF s[i] \in DOMAIN UpperToLower THEN UpperToLower[s[i]] ELSE s[i]]

\* str.endswith(suffix)
endswith(s, suffix) ==
    /\ Len(s) >= Len(suffix)
    /\ SubSeq(s, Len(s) - Len(suffix) + 1, Len(s)) = suffix

\* s[:-4]
DropLast4(s) == SubSeq(s, 1, Len(s) - 4)

PNG == <<".", "p", "n", "g">>
TIF == <<".", "t", "i", "f">>
TIFF == <<".", "t", "i", "f", "f">>
JPG == <<".", "j", "p", "g">>
JPEG == <<".", "j", "p", "e", "g">>

\* the string a path spells (what source_path.encode() hashes)
RECURSIVE PathStr(_)
PathStr(s) == IF s = <<>> THEN "" ELSE Head(s) \o PathStr(Tail(s))

\* hashlib.md5(data.encode()).hexdigest(), the hash taken as collision-free
md5_hexdigest(data) == "md5(" \o data \o ")"

\* hashlib.md5(data.encode()).hexdigest()[:8], taken as collision-free too
md5_hexdigest8(data) == "md5_8(" \o data \o ")"

-----------------------------------------------------------------------------
(* Numbers as Python prints them.  A number is [t, h]: its Python type and *)
(* its value in hundredths.  Python's == compares the values (1 == 1.0),   *)
(* an f-string prints an int without and a float with a decimal point.     *)

Int_(n) == [t |-> "int", h |-> n * 100]
Float_(h) == [t |-> "float", h |-> h]
NoneNum == [t |-> "None", h |-> 0]

\* Python ==
PyEq(a, b) == IF a.t = "None" \/ b.t = "None" THEN a.t = b.t ELSE a.h = b.h

Digit(d) == CASE d = 0 -> "0" [] d = 1 -> "1" [] d = 2 -> "2" [] d = 3 -> "3"
              [] d = 4 -> "4" [] d = 5 -> "5" [] d = 6 -> "6" [] d = 7 -> "7"
              [] d = 8 -> "8" [] d = 9 -> "9"

RECURSIVE IntStr(_)
IntStr(n) == IF n < 10 THEN Digit(n) ELSE IntStr(n \div 10) \o Digit(n % 10)

\* format(x) of an f-string field: str(int), repr(float), "None"
str(x) ==
    CASE x.t = "int" -> IntStr(x.h \div 100)
      [] x.t = "float" ->
           IntStr(x.h \div 100) \o "." \o
             (IF x.h % 10 = 0 THEN Digit((x.h % 100) \div 10)
              ELSE Digit((x.h % 100) \div 10) \o Digit(x.h % 10))
      [] x.t = "None" -> "None"

\* the dataclass-generated __repr__ of CMYKColor
CMYKColor_repr(col) ==
    "CMYKColor(c=" \o str(col.c) \o ", m=" \o str(col.m) \o ", y=" \o str(col.y)
        \o ", k=" \o str(col.k) \o ")"

\* the dataclass-generated __eq__ of CMYKColor
CMYKColor_eq(a, b) ==
    PyEq(a.c, b.c) /\ PyEq(a.m, b.m) /\ PyEq(a.y, b.y) /\ PyEq(a.k, b.k)

\* == of two 4-tuples of ints (QRCodeConfig.fg_color, bg_color)
Tuple4_eq(a, b) == \A i \in 1..4 : PyEq(a[i], b[i])

-----------------------------------------------------------------------------
(* Cache keys *)

GradientConfig_eq(a, b) ==
    /\ PyEq(a.width_px, b.width_px) /\ PyEq(a.height_px, b.height_px)
    /\ CMYKColor_eq(a.color_top, b.color_top)
    /\ CMYKColor_eq(a.color_bottom, b.color_bottom)
    /\ PyEq(a.hotspot_x, b.hotspot_x) /\ PyEq(a.hotspot_y, b.hotspot_y)

GradientConfig_get_cache_key(self) ==
    md5_hexdigest(str(self.width_px) \o "x" \o str(self.height_px) \o "_"
                    \o CMYKColor_repr(self.color_top) \o "_"
                    \o CMYKColor_repr(self.color_bottom))

VignetteConfig_eq(a, b) ==
    /\ PyEq(a.edge_fade, b.edge_fade) /\ PyEq(a.bottom_fade, b.bottom_fade)
    /\ PyEq(a.top_fade, b.top_fade)

VignetteConfig_get_cache_key(self) ==
    md5_hexdigest("vignette_" \o str(self.edge_fade) \o "_" \o str(self.bottom_fade)
                    \o "_" \o str(self.top_fade))

QRCodeConfig_eq(a, b) ==
    /\ a.data = b.data /\ PyEq(a.size_px, b.size_px)
    /\ Tuple4_eq(a.fg_color, b.fg_color) /\ Tuple4_eq(a.bg_color, b.bg_color)
    /\ PyEq(a.border, b.border)

QRCodeConfig_get_cache_key(self) ==
    md5_hexdigest("qr_" \o self.data \o "_" \o str(self.size_px) \o "_" \o str(self.border))

-----------------------------------------------------------------------------
(* The filesystem: fs maps every existing path to what it holds, an image  *)
(* [mode, alpha]: mode is the PIL mode Image.open reports, "bad" for a     *)
(* file that cannot be decoded, "dir" for a directory; alpha tells what    *)
(* became of the transparency: "opaque" there never was any, "transparent" *)
(* the image has an alpha channel, "on_white" it was composited onto       *)
(* white, "dropped" the alpha channel was discarded without compositing.   *)
(* disk is "ok" or "full": on a full disk every write fails.               *)

Modes == {"RGB", "RGBA", "LA", "CMYK"}

Img(mode, alpha) == [mode |-> mode, alpha |-> alpha]
Truncated == Img("bad", "opaque")
Directory == Img("dir", "opaque")

\* the directories the model keeps track of
Dirs == {"cache/"}

\* the directory the file is to be created in exists
ParentExists(f, path) == (Len(path) > 1 /\ path[1] \in Dirs) => <<path[1]>> \in DOMAIN f

\* a path counts only once its file is whole
exists_Whole(f, path) == path \in DOMAIN f /\ f[path] # Truncated

\* os.path.exists(path)
exists(f, path) == path \in DOMAIN f

\* Image.open(path) succeeds
Decodable(f, path) == exists(f, path) /\ f[path].mode \in Modes

Write(f, path, content) ==
    [q \in (DOMAIN f) \cup {path} |-> IF q = path THEN content ELSE f[q]]

\* the container PIL picks from the file name's extension
FormatOf(path) ==
    CASE endswith(lower(path), PNG) -> "PNG"
      [] endswith(lower(path), JPG) \/ endswith(lower(path), JPEG) -> "JPEG"
      [] endswith(lower(path), TIF) \/ endswith(lower(path), TIFF) -> "TIFF"
      [] OTHER -> "unknown"

\* the modes a container can hold
Writable(format, mode) ==
    CASE format = "PNG" -> mode \in {"RGB", "RGBA", "LA"}
      [] format = "JPEG" -> mode \in {"RGB", "CMYK"}
      [] format = "TIFF" -> mode \in Modes
      [] OTHER -> FALSE

\* a failed write leaves behind the file it created
save_KeepsPartial(f, path, img) ==
    IF FormatOf(path) = "unknown" \/ ~ParentExists(f, path) THEN [fs |-> f, ok |-> FALSE]
    ELSE IF Writable(FormatOf(path), img.mode) /\ disk = "ok"
         THEN [fs |-> Write(f, path, img), ok |-> TRUE]
    ELSE [fs |-> Write(f, path, Truncated), ok |-> FALSE]

\* img.save(path): [fs, ok].  An unknown extension raises before the file
\* is opened, a missing directory when it is opened; a mode the container
\* cannot hold or a full disk raises after the file was opened for writing:
\* a file the call created is removed again, a file that was there before
\* is left truncated.
save(f, path, img) ==
    IF FormatOf(path) = "unknown" \/ ~ParentExists(f, path) THEN [fs |-> f, ok |-> FALSE]
    ELSE IF Writable(FormatOf(path), img.mode) /\ disk = "ok"
         THEN [fs |-> Write(f, path, img), ok |-> TRUE]
    ELSE IF ~exists(f, path) THEN [fs |-> f, ok |-> FALSE]
    ELSE [fs |-> Write(f, path, Truncated), ok |-> FALSE]

\* one img.save call as it is logged
Attempt(path, mode, ok) == [path |-> path, mode |-> mode, ok |-> ok]

\* what a function call comes to: the filesystem it leaves, the path it
\* returns (None when it raises), the img.save calls it made
Return(f, path, saves) == [fs |-> f, ret |-> path, raised |-> FALSE, saves |-> saves]
Raise(f, saves) == [fs |-> f, ret |-> None, raised |-> TRUE, saves |-> saves]

-----------------------------------------------------------------------------
(* color_management.py *)

\* the extension test without lower(): .PNG is not recognised
RemapExtension_CaseSensitive(output_path) ==
    IF endswith(output_path, PNG) THEN DropLast4(output_path) \o JPG
    ELSE IF ~(\E e \in {TIF, TIFF, JPG, JPEG} : endswith(output_path, e))
         THEN output_path \o JPG
         ELSE output_path

\* the output path as the three CMYK writers rewrite it
RemapExtension(output_path) ==
    IF endswith(lower(output_path), PNG) THEN DropLast4(output_path) \o JPG
    ELSE IF ~(\E e \in {TIF, TIFF, JPG, JPEG} : endswith(lower(output_path), e))
         THEN output_path \o JPG
         ELSE output_path

\* img.convert('RGB'): an alpha channel is discarded
convert_rgb(img) == Img("RGB", IF img.alpha = "transparent" THEN "dropped" ELSE img.alpha)

\* Image.new('RGB', size, white) with the image pasted through its alpha
composite_on_white(img) == Img("RGB", "on_white")

\* img.convert('CMYK'), and what the profile transform gives
convert_cmyk(img) == Img("CMYK", IF img.alpha = "transparent" THEN "dropped" ELSE img.alpha)

\* the CMYK source saved again even when it is the output file itself
SaveIfElsewhere_Always(f, image_path, out) ==
    LET s == save(f, out, f[image_path])
    IN  IF s.ok THEN Return(s.fs, out, <<Attempt(out, "CMYK", TRUE)>>)
        ELSE Raise(s.fs, <<Attempt(out, "CMYK", FALSE)>>)

\* the source is CMYK already: save it unless it is the output file itself
SaveIfElsewhere(f, image_path, out) ==
    IF out # image_path
    THEN LET s == save(f, out, f[image_path])
         IN  IF s.ok THEN Return(s.fs, out, <<Attempt(out, "CMYK", TRUE)>>)
             ELSE Raise(s.fs, <<Attempt(out, "CMYK", FALSE)>>)
    ELSE Return(f, out, <<>>)

\* the image as the profile branch reduces it to three channels
ProfileRGB(img) == IF img.mode # "RGB" THEN convert_rgb(img) ELSE img

\* the image as the fallback reduces it to three channels
FallbackRGB(img) ==
    IF img.mode = "RGBA" THEN composite_on_white(img)
    ELSE IF img.mode # "RGB" THEN convert_rgb(img)
    ELSE img

\* a failure of the profile transform raised to the caller
ensure_cmyk_image_NoRecovery(f, image_path, output_path, prof) ==
    LET out == RemapExtension(IF output_path = None THEN image_path ELSE output_path)
        img == f[image_path]
        s1 == save(f, out, convert_cmyk(ProfileRGB(img)))
        s2 == save(f, out, convert_cmyk(FallbackRGB(img)))
    IN  IF ~Decodable(f, image_path) THEN Raise(f, <<>>)
        ELSE IF img.mode = "CMYK" THEN SaveIfElsewhere(f, image_path, out)
        ELSE IF prof = "fail" THEN Raise(f, <<>>)
        ELSE IF prof = "ok"
             THEN (IF s1.ok THEN Return(s1.fs, out, <<Attempt(out, "CMYK", TRUE)>>)
                   ELSE Raise(s1.fs, <<Attempt(out, "CMYK", FALSE)>>))
        ELSE IF s2.ok THEN Return(s2.fs, out, <<Attempt(out, "CMYK", TRUE)>>)
        ELSE Raise(s2.fs, <<Attempt(out, "CMYK", FALSE)>>)

\* prof: "none" no ICC profile is found, "ok" the profile transform works,
\* "fail" the profile is found and loading or applying it raises.  The try
\* block reassigns img before it loads the profile, so the fallback after
\* a failure starts from the image the profile branch left; whatever the
\* try block raises, its own img_cmyk.save included, is caught.
ensure_cmyk_image(f, image_path, output_path, prof) ==
    LET out == RemapExtension(IF output_path = None THEN image_path ELSE output_path)
        img == f[image_path]
        rgb == ProfileRGB(img)
        s1 == save(f, out, convert_cmyk(rgb))
        saved1 == prof = "ok"
        f1 == IF saved1 THEN s1.fs ELSE f
        log1 == IF saved1 THEN <<Attempt(out, "CMYK", s1.ok)>> ELSE <<>>
        img2 == IF prof = "none" THEN img ELSE rgb
        s2 == save(f1, out, convert_cmyk(FallbackRGB(img2)))
        log2 == log1 \o <<Attempt(out, "CMYK", s2.ok)>>
    IN  IF ~Decodable(f, image_path) THEN Raise(f, <<>>)
        ELSE IF img.mode = "CMYK" THEN SaveIfElsewhere(f, image_path, out)
        ELSE IF saved1 /\ s1.ok THEN Return(s1.fs, out, log1)
        ELSE IF s2.ok THEN Return(s2.fs, out, log2)
        ELSE Raise(s2.fs, log2)

\* the gradient drawn and never saved
create_cmyk_gradient_image_NoSave(f, width, height, color_top, color_bottom, output_path) ==
    Return(f, RemapExtension(output_path), <<>>)

create_cmyk_gradient_image(f, width, height, color_top, color_bottom, output_path) ==
    LET out == RemapExtension(output_path)
        s == save(f, out, Img("CMYK", "opaque"))
    IN  IF s.ok THEN Return(s.fs, out, <<Attempt(out, "CMYK", TRUE)>>)
        ELSE Raise(s.fs, <<Attempt(out, "CMYK", FALSE)>>)

\* the image apply_cmyk_vignette saves
VignetteImage(img) == IF img.mode # "CMYK" THEN convert_cmyk(img) ELSE img

apply_cmyk_vignette(f, image_path, output_path, edge_fade, bottom_fade, top_fade) ==
    LET out == RemapExtension(output_path)
        img == VignetteImage(f[image_path])
        s == save(f, out, img)
    IN  IF ~Decodable(f, image_path) THEN Raise(f, <<>>)
        ELSE IF s.ok THEN Return(s.fs, out, <<Attempt(out, "CMYK", TRUE)>>)
        ELSE Raise(s.fs, <<Attempt(out, "CMYK", FALSE)>>)

-----------------------------------------------------------------------------
(* asset_pipeline.py: AssetCache and AssetPipeline.  self is the pipeline, *)
(* [cache_dir, force_cmyk]; a pipeline method comes to what a function     *)
(* call comes to plus the generators and converters it invoked.            *)

PReturn(f, path, saves, calls) ==
    [fs |-> f, ret |-> path, raised |-> FALSE, saves |-> saves, calls |-> calls]
PRaise(f, saves, calls) ==
    [fs |-> f, ret |-> None, raised |-> TRUE, saves |-> saves, calls |-> calls]

\* os.path.join(self.cache_dir, f"{cache_key}{extension}")
AssetCache_get_path(self, cache_key, extension) == <<self.cache_dir>> \o cache_key \o extension

AssetCache_exists(self, f, cache_key, extension) ==
    exists(f, AssetCache_get_path(self, cache_key, extension))

InDir(path, dir) == Len(path) > 0 /\ path[1] = dir

\* only the .png files of the cache directory removed
AssetCache_clear_PngOnly(self, f) ==
    [q \in {p \in DOMAIN f : ~(InDir(p, self.cache_dir) /\ endswith(p, PNG))} |-> f[q]]

\* if os.path.exists(cache_dir): shutil.rmtree(cache_dir); os.makedirs(cache_dir)
AssetCache_clear(self, f) ==
    IF exists(f, <<self.cache_dir>>)
    THEN [q \in {p \in DOMAIN f : ~InDir(p, self.cache_dir)} \cup {<<self.cache_dir>>} |->
            IF q = <<self.cache_dir>> THEN Directory ELSE f[q]]
    ELSE f

\* `if output_name:` of an Optional[str]
Truthy(output_name) == output_name # None /\ output_name # <<>>

\* the path probed first by prepare_vignette_image and ensure_cmyk_asset
TifPath(output_path) ==
    IF endswith(lower(output_path), PNG) THEN DropLast4(output_path) \o TIF ELSE output_path

\* the output path each operation computes for a request
GradientOutputPath(self, config) ==
    AssetCache_get_path(self, <<GradientConfig_get_cache_key(config)>>, PNG)

VignetteOutputPath(self, source_path, config, output_name) ==
    IF Truthy(output_name)
    THEN AssetCache_get_path(self, output_name, <<>>)
    ELSE AssetCache_get_path(self, <<md5_hexdigest8(PathStr(source_path)) \o "_"
                                     \o VignetteConfig_get_cache_key(config)>>, PNG)

\* cmyk_source of prepare_vignette_image, output_path of ensure_cmyk_asset
CmykSourcePath(self, source_path) ==
    AssetCache_get_path(self, <<md5_hexdigest8(PathStr(source_path)) \o "_cmyk">>, PNG)

AssetOutputPath(self, source_path, output_name) ==
    IF Truthy(output_name)
    THEN AssetCache_get_path(self, output_name, <<>>)
    ELSE CmykSourcePath(self, source_path)

QrOutputPath(self, config) ==
    AssetCache_get_path(self, <<QRCodeConfig_get_cache_key(config)>>, PNG)

LogoOutputPath(self, logo_path, target_width_px, preserve_transparency) ==
    AssetCache_get_path(self, <<md5_hexdigest8(PathStr(logo_path)) \o "_logo_"
                                \o str(target_width_px)
                                \o (IF preserve_transparency THEN "_alpha" ELSE "")>>, PNG)

prepare_gradient(self, f, config) ==
    LET cache_key == <<GradientConfig_get_cache_key(config)>>
        output_path == GradientOutputPath(self, config)
        g == create_cmyk_gradient_image(f, config.width_px, config.height_px,
                                        config.color_top, config.color_bottom, output_path)
    IN  IF AssetCache_exists(self, f, cache_key, PNG) THEN PReturn(f, output_path, <<>>, <<>>)
        ELSE IF g.raised THEN PRaise(g.fs, g.saves, <<"create_cmyk_gradient_image">>)
        ELSE PReturn(g.fs, output_path, g.saves, <<"create_cmyk_gradient_image">>)

\* a failure of the conversion or of the vignette swallowed: the source
\* path is returned instead
prepare_vignette_image_Swallow(self, f, source_path, config, output_name, prof) ==
    LET output_path == VignetteOutputPath(self, source_path, config, output_name)
        tif_path == TifPath(output_path)
        cmyk_source == CmykSourcePath(self, source_path)
        c == IF self.force_cmyk THEN ensure_cmyk_image(f, source_path, cmyk_source, prof)
             ELSE Return(f, source_path, <<>>)
        calls1 == IF self.force_cmyk THEN <<"ensure_cmyk_image">> ELSE <<>>
        v == apply_cmyk_vignette(c.fs, c.ret, output_path, config.edge_fade,
                                 config.bottom_fade, config.top_fade)
        calls2 == calls1 \o <<"apply_cmyk_vignette">>
    IN  IF exists(f, tif_path) THEN PReturn(f, tif_path, <<>>, <<>>)
        ELSE IF exists(f, output_path) THEN PReturn(f, output_path, <<>>, <<>>)
        ELSE IF c.raised THEN PReturn(c.fs, source_path, c.saves, calls1)
        ELSE IF v.raised THEN PReturn(v.fs, source_path, c.saves \o v.saves, calls2)
        ELSE PReturn(v.fs, v.ret, c.saves \o v.saves, calls2)

prepare_vignette_image(self, f, source_path, config, output_name, prof) ==
    LET output_path == VignetteOutputPath(self, source_path, config, output_name)
        tif_path == TifPath(output_path)
        cmyk_source == CmykSourcePath(self, source_path)
        c == IF self.force_cmyk THEN ensure_cmyk_image(f, source_path, cmyk_source, prof)
             ELSE Return(f, source_path, <<>>)
        calls1 == IF self.force_cmyk THEN <<"ensure_cmyk_image">> ELSE <<>>
        v == apply_cmyk_vignette(c.fs, c.ret, output_path, config.edge_fade,
                                 config.bottom_fade, config.top_fade)
        calls2 == calls1 \o <<"apply_cmyk_vignette">>
    IN  IF exists(f, tif_path) THEN PReturn(f, tif_path, <<>>, <<>>)
        ELSE IF exists(f, output_path) THEN PReturn(f, output_path, <<>>, <<>>)
        ELSE IF c.raised THEN PRaise(c.fs, c.saves, calls1)
        ELSE IF v.raised THEN PRaise(v.fs, c.saves \o v.saves, calls2)
        ELSE PReturn(v.fs, v.ret, c.saves \o v.saves, calls2)

\* qrcode: whether `import qrcode` succeeds
prepare_qr_code(self, f, config, qrcode) ==
    LET cache_key == <<QRCodeConfig_get_cache_key(config)>>
        output_path == QrOutputPath(self, config)
        s == save(f, output_path, Img("CMYK", "opaque"))
    IN  IF AssetCache_exists(self, f, cache_key, PNG) THEN PReturn(f, output_path, <<>>, <<>>)
        ELSE IF ~qrcode THEN PRaise(f, <<>>, <<>>)
        ELSE IF s.ok THEN PReturn(s.fs, output_path, <<Attempt(output_path, "CMYK", TRUE)>>, <<"qrcode">>)
        ELSE PRaise(s.fs, <<Attempt(output_path, "CMYK", FALSE)>>, <<"qrcode">>)

\* the conversion made whatever force_cmyk says
ensure_cmyk_asset_AlwaysConvert(self, f, source_path, output_name, prof) ==
    LET output_path == AssetOutputPath(self, source_path, output_name)
        tif_path == TifPath(output_path)
        c == ensure_cmyk_image(f, source_path, output_path, prof)
    IN  IF exists(f, tif_path) THEN PReturn(f, tif_path, <<>>, <<>>)
        ELSE IF exists(f, output_path) THEN PReturn(f, output_path, <<>>, <<>>)
        ELSE IF c.raised THEN PRaise(c.fs, c.saves, <<"ensure_cmyk_image">>)
        ELSE PReturn(c.fs, c.ret, c.saves, <<"ensure_cmyk_image">>)

ensure_cmyk_asset(self, f, source_path, output_name, prof) ==
    LET output_path == AssetOutputPath(self, source_path, output_name)
        tif_path == TifPath(output_path)
        c == ensure_cmyk_image(f, source_path, output_path, prof)
    IN  IF ~self.force_cmyk THEN PReturn(f, source_path, <<>>, <<>>)
        ELSE IF exists(f, tif_path) THEN PReturn(f, tif_path, <<>>, <<>>)
        ELSE IF exists(f, output_path) THEN PReturn(f, output_path, <<>>, <<>>)
        ELSE IF c.raised THEN PRaise(c.fs, c.saves, <<"ensure_cmyk_image">>)
        ELSE PReturn(c.fs, c.ret, c.saves, <<"ensure_cmyk_image">>)

\* the image prepare_logo saves
LogoImage(self, img, preserve_transparency) ==
    LET rgb == IF img.mode = "RGBA" THEN composite_on_white(img)
               ELSE IF img.mode # "RGB" THEN convert_rgb(img)
               ELSE img
    IN  IF preserve_transparency /\ img.mode \in {"RGBA", "LA"} THEN img
        ELSE IF self.force_cmyk THEN convert_cmyk(rgb)
        ELSE rgb

prepare_logo(self, f, logo_path, target_width_px, preserve_transparency) ==
    LET output_path == LogoOutputPath(self, logo_path, target_width_px, preserve_transparency)
        img == LogoImage(self, f[logo_path], preserve_transparency)
        mode == img.mode
        s == save(f, output_path, img)
    IN  IF exists(f, output_path) THEN PReturn(f, output_path, <<>>, <<>>)
        ELSE IF ~Decodable(f, logo_path) THEN PRaise(f, <<>>, <<>>)
        ELSE IF s.ok THEN PReturn(s.fs, output_path, <<Attempt(output_path, mode, TRUE)>>, <<"resize">>)
        ELSE PRaise(s.fs, <<Attempt(output_path, mode, FALSE)>>, <<"resize">>)

-----------------------------------------------------------------------------
(* The inputs the calls are drawn from *)

White == [c |-> Int_(0), m |-> Int_(0), y |-> Int_(0), k |-> Int_(0)]
Black == [c |-> Int_(0), m |-> Int_(0), y |-> Int_(0), k |-> Int_(100)]

Gradient(w, h, top, bottom, hx, hy) ==
    [width_px |-> w, height_px |-> h, color_top |-> top, color_bottom |-> bottom,
     hotspot_x |-> hx, hotspot_y |-> hy]
Vignette(e, b, t) == [edge_fade |-> e, bottom_fade |-> b, top_fade |-> t]
QRCode(d, s, fg, bg, b) == [data |-> d, size_px |-> s, fg_color |-> fg, bg_color |-> bg, border |-> b]

Gradients == << Gradient(Int_(100), Int_(100), White, Black, NoneNum, NoneNum),
                Gradient(Int_(200), Int_(100), White, Black, NoneNum, NoneNum) >>

Vignettes == << Vignette(Float_(25), Float_(45), Float_(10)),
                Vignette(Float_(25), Float_(45), Float_(5)) >>

CmykBlack == <<Int_(0), Int_(0), Int_(0), Int_(255)>>
CmykWhite == <<Int_(0), Int_(0), Int_(0), Int_(0)>>

QRCodes == << QRCode("https://x", Int_(400), CmykBlack, CmykWhite, Int_(2)) >>

Face == <<"assets/", "f", ".", "p", "n", "g">>
Backdrop == <<"assets/", "b", ".", "j", "p", "g">>
Missing == <<"assets/", "m", ".", "p", "n", "g">>
Scan == <<"assets/", "c">>
Mask == <<"assets/", "g", ".", "p", "n", "g">>
Corrupt == <<"assets/", "x", ".", "p", "n", "g">>

\* the source images of the pipeline calls: an RGBA PNG, a CMYK JPEG, no file
Sources == <<Face, Backdrop, Missing>>

OutputNames == << None, <<"v", ".", "p", "n", "g">>, <<"v", ".", "j", "p", "g">> >>

Widths == <<Int_(300)>>

\* the image and output paths of the direct calls of color_management
LibImages == {Face, Backdrop, Missing, Scan, Mask, Corrupt}
LibOutputs ==
    { <<"o", ".", "p", "n", "g">>, <<"o", ".", "P", "N", "G">>, <<"o", ".", "P", "n", "g">>,
      <<"o", ".", "t", "i", "f">>, <<"o", ".", "T", "I", "F", "F">>,
      <<"o", ".", "j", "p", "g">>, <<"o", ".", "j", "p", "e", "g">>,
      <<"o">>, <<"o", ".", "b", "m", "p">>, <<"p", "n", "g">>, PNG, <<>> }

Profiles == {"none", "ok", "fail"}

-----------------------------------------------------------------------------
(* State *)

NoImage == Img("none", "opaque")

\* what Image.open finds at the path when the call is made
Opened(f, path) == IF exists(f, path) THEN f[path] ELSE NoImage

NoCall == [op |-> "none", args |-> <<0, 0, 0>>, image |-> None, out |-> None,
           src |-> NoImage, prof |-> "none", ret |-> None, raised |-> FALSE, saves |-> <<>>,
           calls |-> <<>>, seen |-> FALSE, first |-> None, prev |-> None,
           removed |-> {}]

NoHist == [id \in {} |-> None]
NoPar == [req |-> <<"none", <<0, 0, 0>>>>, proc |-> <<>>, opener |-> <<>>]
NoReq == [type |-> "none"]
NoRes == <<>>

\* an RGBA face image, a grey+alpha mask, a file that is no image, two CMYK
\* images, the empty cache directory AssetCache.__init__ made
InitFs == [q \in {Face, Mask, Corrupt, Backdrop, Scan, <<"cache/">>} |->
             CASE q = Face -> Img("RGBA", "transparent")
               [] q = Mask -> Img("LA", "transparent")
               [] q = Corrupt -> Truncated
               [] q = <<"cache/">> -> Directory
               [] OTHER -> Img("CMYK", "opaque")]

Init ==
    /\ fs = InitFs
    /\ pipeline \in {[cache_dir |-> "cache/", force_cmyk |-> b] : b \in BOOLEAN}
    /\ icc \in Profiles
    /\ disk = "ok"
    /\ last = NoCall
    /\ ncalls = 0
    /\ hist = NoHist
    /\ kreq = NoReq
    /\ kres = NoRes
    /\ par = NoPar

\* the files under the cache root
CacheFiles == {q \in DOMAIN fs : InDir(q, pipeline.cache_dir) /\ q # <<pipeline.cache_dir>>}

\* a pipeline call with result r takes effect; hist keeps the path the first
\* normal return of every call gave since the cache was last cleared
Call(op, args, prof, r) ==
    LET id == <<op, args[1], args[2], args[3]>>
    IN  /\ ncalls < MaxCalls
        /\ fs' = r.fs
        /\ last' = [op |-> op, args |-> args, image |-> None, out |-> None,
                    src |-> IF op \in {"prepare_vignette_image", "ensure_cmyk_asset", "prepare_logo"}
                            THEN Opened(fs, Sources[args[1]]) ELSE NoImage,
                    prof |-> prof, ret |-> r.ret, raised |-> r.raised,
                    saves |-> r.saves, calls |-> r.calls,
                    seen |-> id \in DOMAIN hist,
                    first |-> IF id \in DOMAIN hist THEN hist[id] ELSE None,
                    prev |-> None, removed |-> {}]
        /\ hist' = IF r.raised \/ id \in DOMAIN hist THEN hist
                   ELSE [j \in (DOMAIN hist) \cup {id} |-> IF j = id THEN r.ret ELSE hist[j]]
        /\ ncalls' = ncalls + 1
        /\ UNCHANGED <<pipeline, icc, disk, kreq, kres, par>>

PrepareGradient ==
    \E i \in DOMAIN Gradients :
        Call("prepare_gradient", <<i, 0, 0>>, "none", prepare_gradient(pipeline, fs, Gradients[i]))

PrepareVignetteImage ==
    \E i \in DOMAIN Sources, j \in DOMAIN Vignettes, n \in DOMAIN OutputNames :
        Call("prepare_vignette_image", <<i, j, n>>, icc,
             prepare_vignette_image(pipeline, fs, Sources[i], Vignettes[j], OutputNames[n], icc))

PrepareQrCode ==
    \E i \in DOMAIN QRCodes, qrcode \in BOOLEAN :
        Call("prepare_qr_code", <<i, 0, 0>>, "none", prepare_qr_code(pipeline, fs, QRCodes[i], qrcode))

EnsureCmykAsset ==
    \E i \in DOMAIN Sources, n \in DOMAIN OutputNames :
        Call("ensure_cmyk_asset", <<i, 0, n>>, icc,
             ensure_cmyk_asset(pipeline, fs, Sources[i], OutputNames[n], icc))

PrepareLogo ==
    \E i \in DOMAIN Sources, w \in DOMAIN Widths, p \in BOOLEAN :
        Call("prepare_logo", <<i, w, IF p THEN 1 ELSE 0>>, "none",
             prepare_logo(pipeline, fs, Sources[i], Widths[w], p))

Clear ==
    /\ ncalls < MaxCalls
    /\ fs' = AssetCache_clear(pipeline, fs)
    /\ last' = [NoCall EXCEPT !.op = "clear", !.removed = CacheFiles]
    /\ hist' = NoHist
    /\ ncalls' = ncalls + 1
    /\ UNCHANGED <<pipeline, icc, disk, kreq, kres, par>>

Next ==
    \/ PrepareGradient
    \/ PrepareVignetteImage
    \/ PrepareLogo
    \/ PrepareQrCode
    \/ EnsureCmykAsset
    \/ Clear

Spec == Init /\ [][Next]_vars

-----------------------------------------------------------------------------
(* Direct calls of color_management.py *)

LibStep(op, image, out, r) ==
    /\ fs' = r.fs
    /\ last' = [op |-> op, args |-> <<0, 0, 0>>, image |-> image, out |-> out,
                src |-> IF image = None THEN NoImage ELSE Opened(fs, image),
                prof |-> icc, ret |-> r.ret, raised |-> r.raised,
                saves |-> r.saves, calls |-> <<>>, seen |-> FALSE, first |-> None,
                prev |-> IF last.op = "ensure_cmyk_image" /\ ~last.raised
                         THEN last.ret ELSE None,
                removed |-> {}]
    /\ ncalls' = ncalls + 1
    /\ UNCHANGED <<pipeline, icc, disk, hist, kreq, kres, par>>

LibCall(op, image, out, r) == ncalls < MaxLibCalls /\ LibStep(op, image, out, r)

\* the image is a source file or the path the previous call returned
EnsureCmykImage ==
    \E image \in LibImages \cup (IF last.op = "ensure_cmyk_image" /\ ~last.raised
                                 THEN {last.ret} ELSE {}),
       out \in LibOutputs \cup {None} :
        LibCall("ensure_cmyk_image", image, out, ensure_cmyk_image(fs, image, out, icc))

CreateCmykGradientImage ==
    \E i \in DOMAIN Gradients, out \in LibOutputs :
        LibCall("create_cmyk_gradient_image", None, out,
                create_cmyk_gradient_image(fs, Gradients[i].width_px, Gradients[i].height_px,
                    Gradients[i].color_top, Gradients[i].color_bottom, out))

ApplyCmykVignette ==
    \E image \in {Face, Missing}, j \in DOMAIN Vignettes, out \in LibOutputs :
        LibCall("apply_cmyk_vignette", image, out,
                apply_cmyk_vignette(fs, image, out, Vignettes[j].edge_fade,
                    Vignettes[j].bottom_fade, Vignettes[j].top_fade))

InitLib ==
    /\ fs = InitFs
    /\ pipeline = [cache_dir |-> "cache/", force_cmyk |-> TRUE]
    /\ icc \in Profiles
    /\ disk = "ok"
    /\ last = NoCall
    /\ ncalls = 0
    /\ hist = NoHist
    /\ kreq = NoReq
    /\ kres = NoRes
    /\ par = NoPar

NextLib ==
    \/ EnsureCmykImage
    \/ CreateCmykGradientImage
    \/ ApplyCmykVignette

SpecLib == InitLib /\ [][NextLib]_vars

-----------------------------------------------------------------------------
(* Calls that fail: the pipeline's operations and ensure_cmyk_image, with   *)
(* a source that is missing or is no image, a disk that is full, an output *)
(* the container cannot hold.                                              *)

ErrImages == {Face, Mask, Backdrop, Missing}
ErrOutputs == {None, <<"o", ".", "p", "n", "g">>, <<"o", ".", "b", "m", "p">>}

ErrEnsureCmykImage ==
    \E image \in ErrImages, out \in ErrOutputs :
        LibStep("ensure_cmyk_image", image, out, ensure_cmyk_image(fs, image, out, icc))

\* the disk fills up, or space is freed on it
DiskChange ==
    /\ disk' = IF disk = "ok" THEN "full" ELSE "ok"
    /\ UNCHANGED <<fs, pipeline, icc, last, ncalls, hist, kreq, kres, par>>

\* at the third source path there is no file, or a file that is no image
InitErr ==
    /\ fs \in {InitFs, Write(InitFs, Missing, Truncated)}
    /\ pipeline \in {[cache_dir |-> "cache/", force_cmyk |-> b] : b \in BOOLEAN}
    /\ icc \in Profiles
    /\ disk = "ok"
    /\ last = NoCall
    /\ ncalls = 0
    /\ hist = NoHist
    /\ kreq = NoReq
    /\ kres = NoRes
    /\ par = NoPar

NextErr ==
    /\ ncalls < MaxErrCalls
    /\ \/ PrepareGradient
       \/ PrepareVignetteImage
       \/ PrepareLogo
       \/ PrepareQrCode
       \/ EnsureCmykAsset
       \/ ErrEnsureCmykImage
       \/ Clear
       \/ DiskChange

SpecErr == InitErr /\ [][NextErr]_vars

-----------------------------------------------------------------------------
(* Cache keys of pairs of requests *)

WhiteF == [c |-> Float_(0), m |-> Float_(0), y |-> Float_(0), k |-> Float_(0)]
CmykGrey == <<Int_(0), Int_(0), Int_(0), Int_(128)>>

KeyGradients ==
    { Gradient(w, h, top, bottom, hx, hy) :
        w \in {Int_(100), Float_(10000), Int_(200)}, h \in {Int_(100), Int_(50)},
        top \in {White, WhiteF, Black}, bottom \in {Black, White},
        hx \in {NoneNum, Float_(50)}, hy \in {NoneNum, Float_(30)} }

KeyVignettes ==
    { Vignette(e, b, t) :
        e \in {Int_(0), Float_(0), Float_(25)}, b \in {Float_(45), Int_(1), Float_(100)},
        t \in {Float_(10), Float_(5), Int_(0)} }

KeyQRCodes ==
    { QRCode(d, sz, fg, bg, b) :
        d \in {"https://x", "https://y"}, sz \in {Int_(400), Float_(40000), Int_(200)},
        fg \in {CmykBlack, CmykGrey}, bg \in {CmykWhite, CmykGrey}, b \in {Int_(2), Int_(4)} }

InitKey ==
    /\ fs = InitFs
    /\ pipeline = [cache_dir |-> "cache/", force_cmyk |-> TRUE]
    /\ icc = "none"
    /\ disk = "ok"
    /\ last = NoCall
    /\ ncalls = 0
    /\ hist = NoHist
    /\ kreq \in {[type |-> "gradient", a |-> a, b |-> b] : a \in KeyGradients, b \in KeyGradients}
                \cup {[type |-> "vignette", a |-> a, b |-> b] : a \in KeyVignettes, b \in KeyVignettes}
                \cup {[type |-> "qr", a |-> a, b |-> b] : a \in KeyQRCodes, b \in KeyQRCodes}
    /\ kres = NoRes
    /\ par = NoPar

GradientGetCacheKey ==
    /\ kreq.type = "gradient" /\ kres = NoRes
    /\ kres' = <<GradientConfig_get_cache_key(kreq.a), GradientConfig_get_cache_key(kreq.b)>>
    /\ UNCHANGED <<fs, pipeline, icc, disk, last, ncalls, hist, kreq, par>>

VignetteGetCacheKey ==
    /\ kreq.type = "vignette" /\ kres = NoRes
    /\ kres' = <<VignetteConfig_get_cache_key(kreq.a), VignetteConfig_get_cache_key(kreq.b)>>
    /\ UNCHANGED <<fs, pipeline, icc, disk, last, ncalls, hist, kreq, par>>

QRCodeGetCacheKey ==
    /\ kreq.type = "qr" /\ kres = NoRes
    /\ kres' = <<QRCodeConfig_get_cache_key(kreq.a), QRCodeConfig_get_cache_key(kreq.b)>>
    /\ UNCHANGED <<fs, pipeline, icc, disk, last, ncalls, hist, kreq, par>>

NextKey ==
    \/ GradientGetCacheKey
    \/ VignetteGetCacheKey
    \/ QRCodeGetCacheKey

SpecKey == InitKey /\ [][NextKey]_vars

\* the two requests are equal under the dataclass ==
RequestsEqual ==
    CASE kreq.type = "gradient" -> GradientConfig_eq(kreq.a, kreq.b)
      [] kreq.type = "vignette" -> VignetteConfig_eq(kreq.a, kreq.b)
      [] kreq.type = "qr" -> QRCodeConfig_eq(kreq.a, kreq.b)
      [] OTHER -> FALSE

Count(b) == IF b THEN 1 ELSE 0

\* the number of fields in which the two requests differ under !=
FieldsDiffering ==
    LET a == kreq.a
        b == kreq.b
    IN  CASE kreq.type = "gradient" ->
               Count(~PyEq(a.width_px, b.width_px)) + Count(~PyEq(a.height_px, b.height_px))
                 + Count(~CMYKColor_eq(a.color_top, b.color_top))
                 + Count(~CMYKColor_eq(a.color_bottom, b.color_bottom))
                 + Count(~PyEq(a.hotspot_x, b.hotspot_x)) + Count(~PyEq(a.hotspot_y, b.hotspot_y))
          [] kreq.type = "vignette" ->
               Count(~PyEq(a.edge_fade, b.edge_fade)) + Count(~PyEq(a.bottom_fade, b.bottom_fade))
                 + Count(~PyEq(a.top_fade, b.top_fade))
          [] kreq.type = "qr" ->
               Count(a.data # b.data) + Count(~PyEq(a.size_px, b.size_px))
                 + Count(~Tuple4_eq(a.fg_color, b.fg_color))
                 + Count(~Tuple4_eq(a.bg_color, b.bg_color)) + Count(~PyEq(a.border, b.border))
          [] OTHER -> 0

-----------------------------------------------------------------------------
(* color_management.py: CMYKColor.from_rgb.  A number is a fraction [n, d] *)
(* in lowest terms with d > 0; r, g, b are drawn from the grid             *)
(* 0, 1/ColorGrid, ..., 1.                                                 *)

Abs(n) == IF n < 0 THEN -n ELSE n

RECURSIVE GCD(_, _)
GCD(a, b) == IF b = 0 THEN a ELSE GCD(b, a % b)

Rat(n, d) ==
    LET g == GCD(Abs(n), Abs(d))
        sign == IF (n < 0) # (d < 0) THEN -1 ELSE 1
    IN  [n |-> sign * (Abs(n) \div g), d |-> Abs(d) \div g]

Zero == Rat(0, 1)
One == Rat(1, 1)
Hundred == Rat(100, 1)

RSub(a, b) == Rat(a.n * b.d - b.n * a.d, a.d * b.d)
RMul(a, b) == Rat(a.n * b.n, a.d * b.d)
RDiv(a, b) == Rat(a.n * b.d, a.d * b.n)
RLe(a, b) == a.n * b.d <= b.n * a.d
RMax(a, b) == IF RLe(a, b) THEN b ELSE a

cls(c, m, y, k) == [raised |-> FALSE, c |-> c, m |-> m, y |-> y, k |-> k]
ZeroDivisionError == [raised |-> TRUE, c |-> Zero, m |-> Zero, y |-> Zero, k |-> Zero]

\* black given on the scale 0..1
PureBlack_Fraction == cls(Zero, Zero, Zero, One)

\* cls(0, 0, 0, 100)
PureBlack == cls(Zero, Zero, Zero, Hundred)

\* neither black case handled before the division
from_rgb_NoBlackGuard(r, g, b) ==
    LET k == RSub(One, RMax(r, RMax(g, b)))
        d == RSub(One, k)
    IN  IF d = Zero THEN ZeroDivisionError
        ELSE cls(RMul(RDiv(RSub(RSub(One, r), k), d), Hundred),
                 RMul(RDiv(RSub(RSub(One, g), k), d), Hundred),
                 RMul(RDiv(RSub(RSub(One, b), k), d), Hundred),
                 RMul(k, Hundred))

from_rgb(r, g, b) ==
    LET k == RSub(One, RMax(r, RMax(g, b)))
        d == RSub(One, k)
    IN  IF r = Zero /\ g = Zero /\ b = Zero THEN PureBlack
        ELSE IF k = One THEN PureBlack
        ELSE IF d = Zero THEN ZeroDivisionError
        ELSE cls(RMul(RDiv(RSub(RSub(One, r), k), d), Hundred),
                 RMul(RDiv(RSub(RSub(One, g), k), d), Hundred),
                 RMul(RDiv(RSub(RSub(One, b), k), d), Hundred),
                 RMul(k, Hundred))

Levels == {Rat(i, ColorGrid) : i \in 0..ColorGrid}

InitColor ==
    /\ fs = InitFs
    /\ pipeline = [cache_dir |-> "cache/", force_cmyk |-> TRUE]
    /\ icc = "none"
    /\ disk = "ok"
    /\ last = NoCall
    /\ ncalls = 0
    /\ hist = NoHist
    /\ kreq \in {[type |-> "rgb", r |-> r, g |-> g, b |-> b] : r \in Levels, g \in Levels, b \in Levels}
    /\ kres = NoRes
    /\ par = NoPar

FromRgb ==
    /\ ncalls = 0
    /\ ncalls' = 1
    /\ kres' = from_rgb(kreq.r, kreq.g, kreq.b)
    /\ UNCHANGED <<fs, pipeline, icc, disk, last, hist, kreq, par>>

NextColor == FromRgb

SpecColor == InitColor /\ [][NextColor]_vars

-----------------------------------------------------------------------------
(* Properties *)

PipelineOps == {"prepare_gradient", "prepare_vignette_image", "prepare_qr_code",
                "ensure_cmyk_asset", "prepare_logo"}
LibOps == {"ensure_cmyk_image", "create_cmyk_gradient_image", "apply_cmyk_vignette"}

\* the last call repeated a call that has returned since the cache was last
\* cleared, and was served from the cache: same path, no generator or
\* converter invoked, no file written
ServedFromCache ==
    /\ ~last.raised
    /\ last.ret = last.first
    /\ last.calls = <<>>
    /\ last.saves = <<>>

\* C1: once prepare_gradient(r) has returned, every later prepare_gradient(r)
\* (no clear() in between) returns the same path without invoking
\* create_cmyk_gradient_image and without writing a file.
C1_GradientGeneratedOnce ==
    (last.op = "prepare_gradient" /\ last.seen) => ServedFromCache

\* C2: whenever a pipeline operation returns normally, a file exists at the
\* path it returned.
C2_ReturnedPathExists ==
    (last.op \in PipelineOps /\ ~last.raised) => exists(fs, last.ret)

\* C3: with force_cmyk on, after one successful prepare_vignette_image or
\* ensure_cmyk_asset call the next call with the same arguments is a cache
\* hit: same path, no conversion, no file written.
C3_RemappedPathProbed ==
    (last.op \in {"prepare_vignette_image", "ensure_cmyk_asset"} /\ last.seen
       /\ pipeline.force_cmyk) => ServedFromCache

\* C4: from an empty cache root the first prepare_gradient(r) leaves exactly
\* one file under the cache root, and a second call with the same r returns
\* the same path and leaves the number of files under the cache root as it was.
C4_OneFileThenNone ==
    /\ (ncalls = 1 /\ last.op = "prepare_gradient" /\ ~last.raised)
          => Cardinality(CacheFiles) = 1
    /\ (ncalls = 2 /\ last.op = "prepare_gradient" /\ last.seen /\ ~last.raised)
          => (last.ret = last.first /\ Cardinality(CacheFiles) = 1)

C4_Witness ==
    ncalls = 2 /\ last.op = "prepare_gradient" /\ last.seen /\ ~last.raised

\* C5: two requests that are field-wise equal under the dataclass ==, whatever
\* the numeric types of the equal values, have the same cache key.
C5_EqualRequestsSameKey ==
    (kres # NoRes /\ RequestsEqual) => kres[1] = kres[2]

\* C6: two requests of one type that differ in one field, whichever field it
\* is, have different cache keys.
C6_OneFieldDiffersKeyDiffers ==
    (kres # NoRes /\ FieldsDiffering = 1) => kres[1] # kres[2]

\* C7: an image in CMYK mode is never saved to a path that ends in .png.
C7_NoCmykToPng ==
    \A i \in DOMAIN last.saves :
        last.saves[i].mode = "CMYK" => ~endswith(lower(last.saves[i].path), PNG)

\* the output path a direct call asked for
Requested == IF last.out = None THEN last.image ELSE last.out

FourChannelExts == {TIF, TIFF, JPG, JPEG}

\* C8: the path the three CMYK writers return never ends in .png and always
\* ends in a four-channel-capable extension: .png in any letter case is
\* replaced by .jpg, a four-channel-capable extension is kept, anything else
\* gets .jpg appended.
C8_ReturnedExtension ==
    (last.op \in LibOps /\ ~last.raised) =>
        /\ ~endswith(lower(last.ret), PNG)
        /\ \E e \in FourChannelExts : endswith(lower(last.ret), e)
        /\ endswith(lower(Requested), PNG) =>
              /\ Len(last.ret) = Len(Requested)
              /\ SubSeq(last.ret, 1, Len(Requested) - 4) = SubSeq(Requested, 1, Len(Requested) - 4)
              /\ endswith(last.ret, JPG)
        /\ (\E e \in FourChannelExts : endswith(lower(Requested), e)) => last.ret = Requested
        /\ (~endswith(lower(Requested), PNG)
              /\ ~(\E e \in FourChannelExts : endswith(lower(Requested), e)))
             => last.ret = Requested \o JPG

C8_Witness ==
    /\ last.op \in LibOps /\ ~last.raised
    /\ Requested = <<"o", ".", "P", "N", "G">>

\* C9: when the requested output path ends in .png, the CMYK image is saved
\* as TIFF at that path with the extension changed to .tif, and the .tif path
\* is returned.
C9_PngSavedAsTif ==
    (last.op \in LibOps /\ ~last.raised /\ endswith(lower(Requested), PNG)) =>
        /\ last.ret = DropLast4(Requested) \o TIF
        /\ exists(fs, last.ret)

\* C10: if p = ensure_cmyk_image(s, o), a following ensure_cmyk_image(p)
\* returns p, saves nothing and leaves the filesystem as it was.
C10_EnsureCmykIdempotent ==
    [][(/\ last.op = "ensure_cmyk_image" /\ ~last.raised
        /\ ncalls' = ncalls + 1
        /\ last'.op = "ensure_cmyk_image" /\ last'.image = last.ret /\ last'.out = None)
       => (/\ ~last'.raised
           /\ last'.ret = last.ret
           /\ last'.saves = <<>>
           /\ fs' = fs)]_vars

C10_Witness ==
    /\ last.op = "ensure_cmyk_image" /\ ~last.raised
    /\ last.prev # None /\ last.image = last.prev /\ last.out = None


\* the last call was ensure_cmyk_image on a source that decodes and is not
\* CMYK yet: the conversion step was reached
Converting ==
    /\ last.op = "ensure_cmyk_image"
    /\ last.src.mode \in Modes \ {"CMYK"}

\* the profile branch of the last call failed: the profile could not be
\* loaded or applied, or the branch's own write failed
ProfileBranchFailed ==
    \/ last.prof = "fail"
    \/ last.prof = "ok" /\ last.saves # <<>> /\ ~last.saves[1].ok

\* C11: a failure of the profile-based conversion in ensure_cmyk_image is
\* never raised: the fallback conversion runs and makes the last write of
\* the call; when that write succeeds the call returns the path it wrote,
\* which holds a four-channel image, and the call raises only when that
\* write failed.
C11_ProfileFailureFallsBack ==
    (Converting /\ ProfileBranchFailed) =>
        LET n == Len(last.saves)
        IN  /\ n = (IF last.prof = "fail" THEN 1 ELSE 2)
            /\ last.raised <=> ~last.saves[n].ok
            /\ ~last.raised =>
                  /\ last.ret = last.saves[n].path
                  /\ exists(fs, last.ret)
                  /\ fs[last.ret].mode = "CMYK"

C11_Witness ==
    /\ Converting
    /\ last.prof = "fail"
    /\ ~last.raised
    /\ fs[last.ret].mode = "CMYK"

\* the paths whose existence the operation checks for the request before
\* it generates anything
Probes(op, args) ==
    CASE op = "prepare_gradient" -> {GradientOutputPath(pipeline, Gradients[args[1]])}
      [] op = "prepare_vignette_image" ->
           LET p == VignetteOutputPath(pipeline, Sources[args[1]], Vignettes[args[2]],
                                       OutputNames[args[3]])
           IN  {TifPath(p), p}
      [] op = "prepare_qr_code" -> {QrOutputPath(pipeline, QRCodes[args[1]])}
      [] op = "ensure_cmyk_asset" ->
           LET p == AssetOutputPath(pipeline, Sources[args[1]], OutputNames[args[3]])
           IN  {TifPath(p), p}
      [] op = "prepare_logo" ->
           {LogoOutputPath(pipeline, Sources[args[1]], Widths[args[2]], args[3] = 1)}
      [] OTHER -> {}

\* in state f the operation misses the cache and goes on to open the source
Misses(f, op, args) ==
    /\ \A p \in Probes(op, args) : ~exists(f, p)
    /\ op = "ensure_cmyk_asset" => pipeline.force_cmyk

\* a call whose source file is missing or cannot be decoded raises and
\* leaves the filesystem as it was
C12_Step ==
    ( /\ ncalls' = ncalls + 1
      /\ last'.src.mode \notin Modes
      /\ \/ last'.op = "ensure_cmyk_image"
         \/ /\ last'.op \in {"ensure_cmyk_asset", "prepare_vignette_image"}
            /\ Misses(fs, last'.op, last'.args) )
    => (last'.raised /\ fs' = fs /\ last'.saves = <<>>)

\* C12: when the source file is missing or cannot be decoded,
\* ensure_cmyk_image, and ensure_cmyk_asset and prepare_vignette_image on a
\* cache miss, raise, and the call creates and modifies no file.
C12_NoSourceNoWrite == [][C12_Step]_vars

\* a vignette of a file that is no image was asked for, with files in the cache
C12_Witness ==
    /\ last.op = "prepare_vignette_image"
    /\ last.src.mode = "bad"
    /\ last.raised
    /\ CacheFiles # {}

\* C13: one call of ensure_cmyk_image attempts the write of its output at
\* most once, and a failed write is raised to the caller.
C13_OneWriteAttempt ==
    last.op = "ensure_cmyk_image" =>
        /\ Len(last.saves) <= 1
        /\ (Len(last.saves) = 1 /\ ~last.saves[1].ok) => last.raised

\* C14: when a pipeline operation raises, no file exists afterwards at any
\* path its cache check probes for the request: the same call is a miss
\* again.
C14_FailureLeavesNoCacheEntry ==
    (last.op \in PipelineOps /\ last.raised) =>
        /\ \A p \in Probes(last.op, last.args) : ~exists(fs, p)
        /\ Misses(fs, last.op, last.args)

\* the write of the very path the operation probes failed
C14_Witness ==
    /\ last.op \in PipelineOps
    /\ last.raised
    /\ last.saves # <<>>
    /\ ~last.saves[Len(last.saves)].ok
    /\ last.saves[Len(last.saves)].path \in Probes(last.op, last.args)

\* clear() has just returned
Cleared == last.op = "clear"

\* the requests the pipeline's operations are called with
Requests ==
    {<<"prepare_gradient", <<i, 0, 0>>>> : i \in DOMAIN Gradients}
    \cup {<<"prepare_vignette_image", <<i, j, n>>>> :
             i \in DOMAIN Sources, j \in DOMAIN Vignettes, n \in DOMAIN OutputNames}
    \cup {<<"prepare_qr_code", <<i, 0, 0>>>> : i \in DOMAIN QRCodes}
    \cup {<<"ensure_cmyk_asset", <<i, 0, n>>>> : i \in DOMAIN Sources, n \in DOMAIN OutputNames}
    \cup {<<"prepare_logo", <<i, w, p>>>> : i \in DOMAIN Sources, w \in DOMAIN Widths, p \in {0, 1}}

\* the next step is a pipeline operation that consults the cache
ConsultsCache ==
    /\ last'.op \in PipelineOps
    /\ last'.op = "ensure_cmyk_asset" => pipeline.force_cmyk

\* C15: when clear() has returned the cache directory exists and holds no
\* file, no request's cache check finds a file, and the operation that
\* follows misses the cache and generates its output anew.
C15_ClearEmptiesCache ==
    /\ [](Cleared =>
            /\ exists(fs, <<pipeline.cache_dir>>)
            /\ CacheFiles = {}
            /\ \A r \in Requests : \A p \in Probes(r[1], r[2]) : ~exists(fs, p))
    /\ [][(Cleared /\ ConsultsCache) =>
            /\ Misses(fs, last'.op, last'.args)
            /\ last'.raised \/ (last'.calls # <<>> /\ last'.saves # <<>>)]_vars

\* clear() removed files
C15_Witness == Cleared /\ last.removed # {}

\* C17: whenever ensure_cmyk_image writes the conversion of a source that
\* has an alpha channel, the transparent regions were composited onto white
\* before the image was reduced to three channels.
C17_AlphaOnWhite ==
    (last.op = "ensure_cmyk_image" /\ ~last.raised /\ last.src.alpha = "transparent")
    => fs[last.ret].alpha = "on_white"

\* the file prepare_vignette_image keeps the CMYK conversion of the source in
Intermediate(source_path) == RemapExtension(CmykSourcePath(pipeline, source_path))

\* the paths the last call tried to write
WrittenPaths(call) == {call.saves[k].path : k \in DOMAIN call.saves}

\* a vignette miss with force_cmyk on writes two files at most and leaves an
\* intermediate that exists alone
C18_Step ==
    ( /\ ncalls' = ncalls + 1
      /\ last'.op = "prepare_vignette_image"
      /\ pipeline.force_cmyk
      /\ Misses(fs, last'.op, last'.args) )
    => /\ Cardinality(WrittenPaths(last')) <= 2
       /\ exists(fs, Intermediate(Sources[last'.args[1]])) =>
            /\ Intermediate(Sources[last'.args[1]]) \notin WrittenPaths(last')
            /\ \A k \in DOMAIN last'.calls : last'.calls[k] # "ensure_cmyk_image"

\* C18: with force_cmyk on, a prepare_vignette_image miss writes at most two
\* files, and when the intermediate CMYK conversion of the source exists
\* already the source is not converted again and the intermediate is not
\* rewritten.
C18_IntermediateCached == [][C18_Step]_vars

\* from_rgb has returned or raised for the colour kreq
Converted == kreq.type = "rgb" /\ ncalls = 1

\* C19: for a grey r = g = b = v, from_rgb returns c = m = y = 0 and
\* k = (1 - v) * 100: (0, 0, 0, 100) for black and (0, 0, 0, 0) for white.
C19_GreyIsBlackOnly ==
    (Converted /\ kreq.r = kreq.g /\ kreq.g = kreq.b) =>
        /\ ~kres.raised
        /\ kres.c = Zero /\ kres.m = Zero /\ kres.y = Zero
        /\ kres.k = RMul(RSub(One, kreq.r), Hundred)
        /\ kreq.r = Zero => kres = cls(Zero, Zero, Zero, Hundred)
        /\ kreq.r = One => kres = cls(Zero, Zero, Zero, Zero)

\* black was converted
C19_Witness == Converted /\ kreq.r = Zero /\ kreq.g = Zero /\ kreq.b = Zero /\ kres.k = Hundred

\* the largest of the three channels of kreq
MaxChannel == RMax(kreq.r, RMax(kreq.g, kreq.b))

\* x is within [0, 100]
InRange(x) == RLe(Zero, x) /\ RLe(x, Hundred)

\* C20: for r, g, b in [0, 1] from_rgb raises nothing, k is (1 - max) * 100,
\* every other channel x gives (max - x) / max * 100 when the colour is not
\* black, and all four channels lie in [0, 100].
C20_FromRgbTotal ==
    Converted =>
        /\ ~kres.raised
        /\ kres.k = RMul(RSub(One, MaxChannel), Hundred)
        /\ MaxChannel # Zero =>
             /\ RMul(kres.c, MaxChannel) = RMul(RSub(MaxChannel, kreq.r), Hundred)
             /\ RMul(kres.m, MaxChannel) = RMul(RSub(MaxChannel, kreq.g), Hundred)
             /\ RMul(kres.y, MaxChannel) = RMul(RSub(MaxChannel, kreq.b), Hundred)
        /\ InRange(kres.c) /\ InRange(kres.m) /\ InRange(kres.y) /\ InRange(kres.k)

\* a colour with three different channels was converted
C20_Witness ==
    /\ Converted
    /\ kreq.r # kreq.g /\ kreq.g # kreq.b /\ kreq.r # kreq.b
    /\ kres.c # Zero /\ kres.k # Zero

-----------------------------------------------------------------------------
(* Concurrent callers of prepare_vignette_image or prepare_logo, all with  *)
(* one request, on an empty cache.  A caller takes the steps of the method *)
(* one at a time: the cache check, the conversion of the source, the load  *)
(* of the image, the write of the output.  A write opens the file, which   *)
(* truncates it, and later completes; a file is whole again once the       *)
(* caller that opened it last has completed its write, all callers         *)
(* writing the same bytes.  par = [req, proc, opener]: the request, every  *)
(* caller's position, and for every path the caller that opened it last.   *)

Callers == 1..MaxCallers

ParRequests == {r \in Requests : r[1] \in {"prepare_vignette_image", "prepare_logo"}}

IsVignette == par.req[1] = "prepare_vignette_image"

\* source_path, logo_path
ParSource == Sources[par.req[2][1]]

\* the output path a caller computes for the request, under a per-caller name
ParOutputPath_PerCaller(pid, req) ==
    LET q == IF req[1] = "prepare_vignette_image"
             THEN VignetteOutputPath(pipeline, Sources[req[2][1]], Vignettes[req[2][2]],
                                     OutputNames[req[2][3]])
             ELSE LogoOutputPath(pipeline, Sources[req[2][1]], Widths[req[2][2]], req[2][3] = 1)
    IN  <<q[1], ToString(pid), "_">> \o SubSeq(q, 2, Len(q))

\* the output path a caller computes for the request: the caller has no part in it
ParOutputPath(pid, req) ==
    IF req[1] = "prepare_vignette_image"
    THEN VignetteOutputPath(pipeline, Sources[req[2][1]], Vignettes[req[2][2]],
                            OutputNames[req[2][3]])
    ELSE LogoOutputPath(pipeline, Sources[req[2][1]], Widths[req[2][2]], req[2][3] = 1)

NewProc == [pc |-> "start", ret |-> None, raised |-> FALSE, missed |-> FALSE,
            src |-> None, path |-> None, img |-> NoImage]

NoOpener == [q \in {} |-> 0]

\* caller pid has opened the path for writing
Open(opener, path, pid) ==
    [q \in (DOMAIN opener) \cup {path} |-> IF q = path THEN pid ELSE opener[q]]

ParStep(pid, proc, f, opener) ==
    /\ par' = [par EXCEPT !.proc[pid] = proc, !.opener = opener]
    /\ fs' = f
    /\ UNCHANGED <<pipeline, icc, disk, last, ncalls, hist, kreq, kres>>

\* os.path.exists(tif_path), os.path.exists(output_path)
ParCheck(pid) ==
    LET me == par.proc[pid]
        out == ParOutputPath(pid, par.req)
        probes == IF IsVignette THEN <<TifPath(out), out>> ELSE <<out>>
        hits == {k \in DOMAIN probes : exists(fs, probes[k])}
        hit == CHOOSE k \in hits : \A j \in hits : k <= j
    IN  /\ me.pc = "start"
        /\ IF hits # {}
           THEN ParStep(pid, [me EXCEPT !.pc = "done", !.ret = probes[hit]], fs, par.opener)
           ELSE ParStep(pid, [me EXCEPT !.missed = TRUE, !.src = ParSource,
                                        !.pc = IF IsVignette /\ pipeline.force_cmyk
                                               THEN "convert" ELSE "load"],
                        fs, par.opener)

\* ensure_cmyk_image(source_path, cmyk_source) up to the opening of its output
ParConvert(pid) ==
    LET me == par.proc[pid]
        r == ensure_cmyk_image(fs, me.src, CmykSourcePath(pipeline, me.src), icc)
    IN  /\ me.pc = "convert"
        /\ IF r.raised
           THEN ParStep(pid, [me EXCEPT !.pc = "done", !.raised = TRUE], r.fs, par.opener)
           ELSE IF r.saves = <<>>
           THEN ParStep(pid, [me EXCEPT !.pc = "load", !.src = r.ret], fs, par.opener)
           ELSE ParStep(pid, [me EXCEPT !.pc = "converting", !.path = r.ret,
                                        !.img = r.fs[r.ret]],
                        Write(fs, r.ret, Truncated), Open(par.opener, r.ret, pid))

\* the write of the converted source completes
ParConvertEnd(pid) ==
    LET me == par.proc[pid]
    IN  /\ me.pc = "converting"
        /\ ParStep(pid, [me EXCEPT !.pc = "load", !.src = me.path],
                   IF par.opener[me.path] = pid THEN Write(fs, me.path, me.img) ELSE fs,
                   par.opener)

\* Image.open of the source, or of the converted source, and what the
\* method makes of it in memory
ParLoad(pid) ==
    LET me == par.proc[pid]
        out == ParOutputPath(pid, par.req)
    IN  /\ me.pc = "load"
        /\ IF ~Decodable(fs, me.src)
           THEN ParStep(pid, [me EXCEPT !.pc = "done", !.raised = TRUE], fs, par.opener)
           ELSE ParStep(pid,
                        [me EXCEPT !.pc = "save",
                                   !.path = IF IsVignette THEN RemapExtension(out) ELSE out,
                                   !.img = IF IsVignette THEN VignetteImage(fs[me.src])
                                           ELSE LogoImage(pipeline, fs[me.src],
                                                          par.req[2][3] = 1)],
                        fs, par.opener)

\* img.save(output_path) opens the file, or fails
ParSaveBegin(pid) ==
    LET me == par.proc[pid]
        s == save(fs, me.path, me.img)
    IN  /\ me.pc = "save"
        /\ IF ~s.ok
           THEN ParStep(pid, [me EXCEPT !.pc = "done", !.raised = TRUE], s.fs, par.opener)
           ELSE ParStep(pid, [me EXCEPT !.pc = "saving"],
                        Write(fs, me.path, Truncated), Open(par.opener, me.path, pid))

\* the write of the output completes and the method returns its path
ParSaveEnd(pid) ==
    LET me == par.proc[pid]
    IN  /\ me.pc = "saving"
        /\ ParStep(pid, [me EXCEPT !.pc = "done", !.ret = me.path],
                   IF par.opener[me.path] = pid THEN Write(fs, me.path, me.img) ELSE fs,
                   par.opener)

InitPar ==
    /\ fs = InitFs
    /\ pipeline \in {[cache_dir |-> "cache/", force_cmyk |-> b] : b \in BOOLEAN}
    /\ icc \in Profiles
    /\ disk = "ok"
    /\ last = NoCall
    /\ ncalls = 0
    /\ hist = NoHist
    /\ kreq = NoReq
    /\ kres = NoRes
    /\ par \in {[req |-> r, proc |-> [c \in Callers |-> NewProc], opener |-> NoOpener] :
                  r \in ParRequests}

NextPar ==
    \E pid \in Callers :
        \/ ParCheck(pid)
        \/ ParConvert(pid)
        \/ ParConvertEnd(pid)
        \/ ParLoad(pid)
        \/ ParSaveBegin(pid)
        \/ ParSaveEnd(pid)

SpecPar == InitPar /\ [][NextPar]_vars

\* what one call of the request comes to on the empty cache
ParSequential ==
    IF IsVignette
    THEN prepare_vignette_image(pipeline, InitFs, ParSource, Vignettes[par.req[2][2]],
                                OutputNames[par.req[2][3]], icc)
    ELSE prepare_logo(pipeline, InitFs, ParSource, Widths[par.req[2][2]], par.req[2][3] = 1)

\* every caller has returned
AllReturned ==
    /\ par.req[1] # "none"
    /\ \A c \in Callers : par.proc[c].pc = "done" /\ ~par.proc[c].raised

\* C16: when concurrent callers of one prepare operation for one uncached
\* request have all returned, they have returned the same path, and the
\* files are exactly those one call alone leaves.
C16_ConcurrentCallersAgree ==
    AllReturned =>
        /\ \A c, d \in Callers : par.proc[c].ret = par.proc[d].ret
        /\ ~ParSequential.raised
        /\ \A c \in Callers : par.proc[c].ret = ParSequential.ret
        /\ fs = ParSequential.fs

\* all callers missed, converted the source and wrote the vignette
C16_Witness ==
    /\ AllReturned
    /\ IsVignette
    /\ pipeline.force_cmyk
    /\ \A c \in Callers : par.proc[c].missed

-----------------------------------------------------------------------------
(* color_management.py: the pixels create_cmyk_gradient_image draws.  A    *)
(* colour is [c, m, y, k] in percent, an image a sequence of rows (row y   *)
(* of the source is row y + 1 here), a row a sequence of pixels, a pixel   *)
(* <<c, m, y, k>> in 0..255.  The arithmetic of the source is binary       *)
(* floating point: where a product is an integer exactly, the computed     *)
(* value may fall just below it, and int() then gives one less.            *)

RAdd(a, b) == Rat(a.n * b.d + b.n * a.d, a.d * b.d)

\* int(x) of a number x >= 0 computed in floating point
int(x) ==
    LET n == x.n \div x.d
    IN  IF x.d = 1 /\ n > 0 THEN {n - 1, n} ELSE {n}

\* t = y / height: the last row stops short of the bottom colour
InterpolationFactor_OverHeight(y, height) == Rat(y, height)

\* t = y / (height - 1) if height > 1 else 0
InterpolationFactor(y, height) == IF height > 1 THEN Rat(y, height - 1) ELSE Zero

\* top + (bottom - top) * t
Interpolate(top, bottom, t) == RAdd(top, RMul(RSub(bottom, top), t))

\* the pixels row y may get: int(c * 2.55), ... for the interpolated colour
RowPixels(y, height, color_top, color_bottom) ==
    LET t == InterpolationFactor(y, height)
        scaled(a, b) == int(RMul(Interpolate(a, b, t), Rat(255, 100)))
    IN  { <<c, m, yv, k>> :
            c \in scaled(color_top.c, color_bottom.c),
            m \in scaled(color_top.m, color_bottom.m),
            yv \in scaled(color_top.y, color_bottom.y),
            k \in scaled(color_top.k, color_bottom.k) }

\* the images of the given height whose rows 0 .. n-1 are drawn: one pixel
\* value is computed for a row and put at every x
RECURSIVE GradientRows(_, _, _, _, _)
GradientRows(n, width, height, color_top, color_bottom) ==
    IF n = 0 THEN {<<>>}
    ELSE { Append(rows, [x \in 1..width |-> pixel]) :
             rows \in GradientRows(n - 1, width, height, color_top, color_bottom),
             pixel \in RowPixels(n - 1, height, color_top, color_bottom) }

Colour(c, m, y, k) == [c |-> Rat(c, 1), m |-> Rat(m, 1), y |-> Rat(y, 1), k |-> Rat(k, 1)]

GradColours == {Colour(0, 0, 0, 0), Colour(0, 0, 0, 100), Colour(100, 50, 1, 20),
                Colour(30, 100, 65, 7)}

InitGrad ==
    /\ fs = InitFs
    /\ pipeline = [cache_dir |-> "cache/", force_cmyk |-> TRUE]
    /\ icc = "none"
    /\ disk = "ok"
    /\ last = NoCall
    /\ ncalls = 0
    /\ hist = NoHist
    /\ kreq \in {[type |-> "gradient", width |-> w, height |-> h,
                  color_top |-> top, color_bottom |-> bottom] :
                    w \in 1..MaxWidth, h \in 1..MaxHeight,
                    top \in GradColours, bottom \in GradColours}
    /\ kres = NoRes
    /\ par = NoPar

DrawGradient ==
    /\ ncalls = 0
    /\ ncalls' = 1
    /\ kres' \in GradientRows(kreq.height, kreq.width, kreq.height,
                              kreq.color_top, kreq.color_bottom)
    /\ UNCHANGED <<fs, pipeline, icc, disk, last, hist, kreq, par>>

NextGrad == DrawGradient

SpecGrad == InitGrad /\ [][NextGrad]_vars

\* the gradient kreq has been drawn
Drawn == kreq.type = "gradient" /\ ncalls = 1

\* a channel percentage on the scale 0..255
Scaled(c) == RMul(c, Rat(255, 100))

\* the pixel value is the channel on the scale 0..255 within a tolerance of 1
Within1(value, c) ==
    /\ RLe(Rat(value - 1, 1), Scaled(c))
    /\ RLe(Scaled(c), Rat(value + 1, 1))

\* every pixel of row y of the image drawn is the colour, within 1 a channel
RowIs(y, colour) ==
    \A x \in 1..kreq.width :
        /\ Within1(kres[y + 1][x][1], colour.c)
        /\ Within1(kres[y + 1][x][2], colour.m)
        /\ Within1(kres[y + 1][x][3], colour.y)
        /\ Within1(kres[y + 1][x][4], colour.k)

\* C21 as stated: for every height H >= 1, row 0 is color_top and row H-1
\* is color_bottom, each channel within a tolerance of 1 on the scale 0..255.
C21_EndpointsAnyHeight ==
    Drawn => (RowIs(0, kreq.color_top) /\ RowIs(kreq.height - 1, kreq.color_bottom))

\* C21: row 0 is color_top for every height H >= 1, and row H-1 is
\* color_bottom for every height H >= 2, each channel within a tolerance of
\* 1 on the scale 0..255; the one row of a gradient of height 1 is color_top.
C21_Endpoints ==
    Drawn =>
        /\ RowIs(0, kreq.color_top)
        /\ kreq.height >= 2 => RowIs(kreq.height - 1, kreq.color_bottom)

\* a gradient of two rows or more between two different colours was drawn
C21_Witness ==
    /\ Drawn
    /\ kreq.height >= 2
    /\ kreq.color_top # kreq.color_bottom
    /\ kres[1] # kres[kreq.height]

\* the integer is a nearest one to x
Nearest(value, x) ==
    /\ RLe(Rat(2 * value - 1, 2), x)
    /\ RLe(x, Rat(2 * value + 1, 2))

\* the four channels of a colour, in the order of a pixel
Channels(colour) == <<colour.c, colour.m, colour.y, colour.k>>

\* C22: every pixel of row y is the same, and each of its channels is
\* top + (bottom - top) * t with t = y / (H - 1) (t = 0 when H = 1), scaled
\* to 0..255 and rounded to the nearest integer.
C22_RowsInterpolatedAndRounded ==
    Drawn =>
        \A y \in 0..(kreq.height - 1) : \A x \in 1..kreq.width :
            /\ kres[y + 1][x] = kres[y + 1][1]
            /\ \A ch \in 1..4 :
                 Nearest(kres[y + 1][x][ch],
                         Scaled(Interpolate(Channels(kreq.color_top)[ch],
                                            Channels(kreq.color_bottom)[ch],
                                            IF kreq.height > 1 THEN Rat(y, kreq.height - 1)
                                            ELSE Zero)))

-----------------------------------------------------------------------------
(* apply_cmyk_vignette, pixel by pixel *)

\* the fade fractions of the requests: the float product of a dimension up to
\* MaxDim and one of these is exact or is no whole number, so that int() of
\* it is its floor
FadeFractions == {Zero, Rat(1, 4), Rat(1, 2), One}

\* VignetteConfig(edge_fade=0.25, bottom_fade=0.45, top_fade=0.10)
FaceFades == [edge_fade |-> Rat(1, 4), bottom_fade |-> Rat(9, 20), top_fade |-> Rat(1, 10)]

Fades ==
    {[edge_fade |-> e, bottom_fade |-> b, top_fade |-> t] :
        e \in FadeFractions, b \in FadeFractions, t \in FadeFractions}
    \cup {FaceFades}

\* the value of every pixel of the source image
SourcePixels == {<<255, 100, 7, 0>>, <<1, 128, 254, 64>>}

\* int(dimension * fraction)
fade_dist(dimension, fraction) == (dimension * fraction.n) \div fraction.d

\* t * t * (3 - t)
smoothstep_Overshoot(t) == RMul(RMul(t, t), RSub(Rat(3, 1), t))

\* t * t * (3 - 2 * t)
smoothstep(t) == RMul(RMul(t, t), RSub(Rat(3, 1), RMul(Rat(2, 1), t)))

\* t * t * t
cubic(t) == RMul(RMul(t, t), t)

\* dist <= fade_dist
InZone_Inclusive(dist, fd) == dist <= fd

\* dist < fade_dist
InZone(dist, fd) == dist < fd

\* (fade_dist - dist) / fade_dist
EdgeT_Inverted(dist, fd) == Rat(fd - dist, fd)

\* t = dist / fade_dist
EdgeT(dist, fd) == Rat(dist, fd)

FullOpacity == [raised |-> FALSE, alpha |-> One]

\* one "if dist < fade_dist: t = dist / fade_dist; alpha *= easing(t)" of
\* the loop body; a division by zero raises and ends the call
Fade(acc, dist, fd, cubicEasing) ==
    IF acc.raised \/ ~InZone(dist, fd) THEN acc
    ELSE IF fd = 0 THEN [raised |-> TRUE, alpha |-> acc.alpha]
    ELSE [raised |-> FALSE,
          alpha |-> RMul(acc.alpha,
                         IF cubicEasing THEN cubic(EdgeT(dist, fd))
                         ELSE smoothstep(EdgeT(dist, fd)))]

\* alpha of the pixel (x, y) after the four fades: left, right, top, bottom
Opacity(x, y, width, height, fades) ==
    LET side_fade_dist == fade_dist(width, fades.edge_fade)
        bottom_fade_dist == fade_dist(height, fades.bottom_fade)
        top_fade_dist == fade_dist(height, fades.top_fade)
    IN  Fade(Fade(Fade(Fade(FullOpacity, x, side_fade_dist, FALSE),
                       width - x - 1, side_fade_dist, FALSE),
                  y, top_fade_dist, FALSE),
             height - y - 1, bottom_fade_dist, TRUE)

\* the values pixels[x, y] can have after "if alpha < 1.0: pixels[x, y] =
\* (int(c * alpha), ...)"
Faded(pixel, a) ==
    IF RLe(One, a) THEN {pixel}
    ELSE {<<c, m, y, k>> : c \in int(RMul(Rat(pixel[1], 1), a)),
                           m \in int(RMul(Rat(pixel[2], 1), a)),
                           y \in int(RMul(Rat(pixel[3], 1), a)),
                           k \in int(RMul(Rat(pixel[4], 1), a))}

\* one pass of the loop body, for the pixel (x, y)
ShadePixel(x, y, width, height, fades, pixel) ==
    LET acc == Opacity(x, y, width, height, fades)
    IN  {[x |-> x, y |-> y, raised |-> acc.raised, alpha |-> acc.alpha, pixel |-> out] :
            out \in IF acc.raised THEN {pixel} ELSE Faded(pixel, acc.alpha)}

InitVig ==
    /\ fs = InitFs
    /\ pipeline = [cache_dir |-> "cache/", force_cmyk |-> TRUE]
    /\ icc = "none"
    /\ disk = "ok"
    /\ last = NoCall
    /\ ncalls = 0
    /\ hist = NoHist
    /\ kreq \in {[type |-> "vignette", width |-> w, height |-> h, fades |-> f, pixel |-> p] :
                    w \in 1..MaxDim, h \in 1..MaxDim, f \in Fades, p \in SourcePixels}
    /\ kres = NoRes
    /\ par = NoPar

\* for y in range(height): for x in range(width): the ncalls-th pixel
VignettePixel ==
    /\ ncalls < kreq.width * kreq.height
    /\ IF kres = NoRes THEN TRUE ELSE ~kres.raised
    /\ ncalls' = ncalls + 1
    /\ kres' \in ShadePixel(ncalls % kreq.width, ncalls \div kreq.width,
                            kreq.width, kreq.height, kreq.fades, kreq.pixel)
    /\ UNCHANGED <<fs, pipeline, icc, disk, last, hist, kreq, par>>

NextVig == VignettePixel

SpecVig == InitVig /\ [][NextVig]_vars

\* the loop body has run for the pixel (kres.x, kres.y)
Shaded == kreq.type = "vignette" /\ kres # NoRes

\* the distances of the pixel shaded from the four edges
DistLeft == kres.x
DistRight == kreq.width - kres.x - 1
DistTop == kres.y
DistBottom == kreq.height - kres.y - 1

\* the multiplier of one edge as stated: the easing of
\* t = d / (fraction * dimension) when d < fraction * dimension, else 1
StatedFactor(dist, dimension, fraction, cubicEasing) ==
    LET zone == RMul(fraction, Rat(dimension, 1))
    IN  IF RLe(zone, Rat(dist, 1)) THEN One
        ELSE IF cubicEasing THEN cubic(RDiv(Rat(dist, 1), zone))
        ELSE smoothstep(RDiv(Rat(dist, 1), zone))

StatedOpacity ==
    RMul(RMul(StatedFactor(DistLeft, kreq.width, kreq.fades.edge_fade, FALSE),
              StatedFactor(DistRight, kreq.width, kreq.fades.edge_fade, FALSE)),
         RMul(StatedFactor(DistTop, kreq.height, kreq.fades.top_fade, FALSE),
              StatedFactor(DistBottom, kreq.height, kreq.fades.bottom_fade, TRUE)))

\* C23: the opacity of every pixel is the product of the multipliers of the
\* edges whose zone contains it, a pixel being in the zone of an edge iff its
\* distance d is less than fade_fraction * dimension, with smoothstep(t) for
\* left, right and top and t^3 for bottom, t = d / (fade_fraction * dimension);
\* each output channel is channel * opacity, stored as an integer.
C23_OpacityIsProductOverZones ==
    Shaded =>
        /\ ~kres.raised
        /\ kres.alpha = StatedOpacity
        /\ \A ch \in 1..4 :
             /\ RLe(Rat(kres.pixel[ch], 1), RMul(Rat(kreq.pixel[ch], 1), StatedOpacity))
             /\ RLe(RMul(Rat(kreq.pixel[ch], 1), StatedOpacity), Rat(kres.pixel[ch] + 1, 1))

\* the three fade distances of the request
SideFadeDist == fade_dist(kreq.width, kreq.fades.edge_fade)
TopFadeDist == fade_dist(kreq.height, kreq.fades.top_fade)
BottomFadeDist == fade_dist(kreq.height, kreq.fades.bottom_fade)

\* the pixel shaded is at the fade distance or further from every edge
OutsideEveryZone ==
    /\ DistLeft >= SideFadeDist
    /\ DistRight >= SideFadeDist
    /\ DistTop >= TopFadeDist
    /\ DistBottom >= BottomFadeDist

\* the pixel shaded touches an edge whose fade distance is a pixel or more
OnFadedEdge ==
    \/ SideFadeDist >= 1 /\ (DistLeft = 0 \/ DistRight = 0)
    \/ TopFadeDist >= 1 /\ DistTop = 0
    \/ BottomFadeDist >= 1 /\ DistBottom = 0

\* the outcomes of the loop body for one pixel of the 1000 x 1000 face image
FacePixel(x, y, pixel) == ShadePixel(x, y, 1000, 1000, FaceFades, pixel)

EdgeCaseFactor(dist, dimension, fraction, cubicEasing) ==
    IF fraction = Zero THEN One
    ELSE IF fraction = One
         THEN IF cubicEasing THEN cubic(Rat(dist, dimension))
              ELSE smoothstep(Rat(dist, dimension))
    ELSE IF ~(dist < fade_dist(dimension, fraction)) THEN One
    ELSE IF cubicEasing THEN cubic(Rat(dist, fade_dist(dimension, fraction)))
    ELSE smoothstep(Rat(dist, fade_dist(dimension, fraction)))

\* C25: a fade fraction of 0 disables its edge for every pixel, without a
\* division by zero, and a fade fraction of 1.0 puts every pixel of the image
\* in the easing zone of its edge, for every width and height >= 1.
C25_FractionZeroAndOne ==
    Shaded =>
        /\ ~kres.raised
        /\ kres.alpha =
             RMul(RMul(EdgeCaseFactor(DistLeft, kreq.width, kreq.fades.edge_fade, FALSE),
                       EdgeCaseFactor(DistRight, kreq.width, kreq.fades.edge_fade, FALSE)),
                  RMul(EdgeCaseFactor(DistTop, kreq.height, kreq.fades.top_fade, FALSE),
                       EdgeCaseFactor(DistBottom, kreq.height, kreq.fades.bottom_fade, TRUE)))
        /\ kreq.fades.edge_fade = One => (InZone(DistLeft, SideFadeDist) /\ InZone(DistRight, SideFadeDist))
        /\ kreq.fades.top_fade = One => InZone(DistTop, TopFadeDist)
        /\ kreq.fades.bottom_fade = One => InZone(DistBottom, BottomFadeDist)

\* a pixel partly faded by a top fade of 1.0 alone, the other edges disabled
C25_Witness ==
    /\ Shaded
    /\ kreq.fades = [edge_fade |-> Zero, bottom_fade |-> Zero, top_fade |-> One]
    /\ kres.alpha # Zero
    /\ kres.alpha # One
    /\ kres.pixel # kreq.pixel

\* C29: the opacity of every pixel lies in [0, 1], every output channel is an
\* integer with 0 <= output <= input, and a pixel of opacity exactly 1 is
\* left identical to the source.
C29_NeverAddsInk ==
    Shaded =>
        /\ RLe(Zero, kres.alpha)
        /\ RLe(kres.alpha, One)
        /\ \A ch \in 1..4 :
             /\ kres.pixel[ch] \in 0..255
             /\ kres.pixel[ch] <= kreq.pixel[ch]
        /\ kres.alpha = One => kres.pixel = kreq.pixel

\* a pixel in the zones of two edges, with an opacity between 0 and 1 and
\* less ink than the source
C29_Witness ==
    /\ Shaded
    /\ InZone(DistLeft, SideFadeDist)
    /\ InZone(DistBottom, BottomFadeDist)
    /\ ~RLe(kres.alpha, Zero)
    /\ ~RLe(One, kres.alpha)
    /\ kres.pixel[1] < kreq.pixel[1]

\* C26: when output_path is None, ensure_cmyk_image writes the CMYK result at
\* image_path itself and returns image_path, for every decodable source that
\* is not CMYK, whatever its extension.
C26_NoneOverwritesSource ==
    ( /\ last.op = "ensure_cmyk_image"
      /\ last.out = None
      /\ ~last.raised
      /\ last.src.mode \notin {"none", "bad", "dir", "CMYK"} )
    => /\ last.ret = last.image
       /\ fs[last.image].mode = "CMYK"

\* the operations of the claim on cache hits
SourceOps == {"prepare_vignette_image", "ensure_cmyk_asset"}

\* the call just made generated the file it returned, and the next call
\* returns that file without writing anything: a cache hit on it
HitOnPrevious ==
    /\ last.op \in SourceOps
    /\ ~last.raised
    /\ last.ret \in WrittenPaths(last)
    /\ ncalls' = ncalls + 1
    /\ last'.op \in SourceOps
    /\ last'.op = "ensure_cmyk_asset" => pipeline.force_cmyk
    /\ ~last'.raised
    /\ last'.saves = <<>>
    /\ last'.ret = last.ret

\* C27: without a clear() in between, prepare_vignette_image (with or without
\* output_name) returns an existing file only if the file was generated from
\* the same source path and the same edge_fade, bottom_fade and top_fade as
\* the current call, and ensure_cmyk_asset returns an existing file only if
\* it was converted from the same source path.
C27_HitOnlyForIdenticalRequest ==
    [][HitOnPrevious =>
        /\ last'.args[1] = last.args[1]
        /\ last'.op = "prepare_vignette_image" =>
             (last.op = "prepare_vignette_image" /\ last'.args[2] = last.args[2])]_vars

\* the output file of the request is there but its write has not completed,
\* and no .tif sibling is there to be returned in its place
PartlyWritten(c) ==
    LET out == ParOutputPath(c, par.req)
    IN  /\ out \in DOMAIN fs
        /\ fs[out] = Truncated
        /\ IsVignette => (TifPath(out) = out \/ TifPath(out) \notin DOMAIN fs)

\* C28: with concurrent callers and no lock or write-to-temp-then-rename, a
\* caller whose existence check runs while the output file is created but
\* not yet written in full takes it for a cache hit and returns its path;
\* the interleaving in which this happens is reachable (C28_Witness).
C28_PartialFileIsHit ==
    [][\A c \in Callers :
         (par.proc[c].pc = "start" /\ par'.proc[c] # par.proc[c] /\ PartlyWritten(c))
         => /\ par'.proc[c].pc = "done"
            /\ ~par'.proc[c].raised
            /\ ~par'.proc[c].missed
            /\ par'.proc[c].ret = ParOutputPath(c, par.req)
            /\ fs' = fs]_vars

\* a caller has returned, on a cache hit, the path of a file another caller
\* is still writing
C28_Witness ==
    \E c, d \in Callers :
        /\ c # d
        /\ par.proc[c].pc = "done"
        /\ ~par.proc[c].raised
        /\ ~par.proc[c].missed
        /\ par.proc[d].pc = "saving"
        /\ par.proc[d].path = par.proc[c].ret
        /\ fs[par.proc[c].ret] = Truncated

\* C30: with force_cmyk False, ensure_cmyk_asset returns source_path as it
\* was given for every source_path and output_name, reads and writes no
\* file, and leaves the contents of the cache directory unchanged.
C30_ForceCmykOffIsIdentity ==
    [][(ncalls' = ncalls + 1 /\ last'.op = "ensure_cmyk_asset" /\ ~pipeline.force_cmyk)
        => /\ ~last'.raised
           /\ last'.ret = Sources[last'.args[1]]
           /\ last'.saves = <<>>
           /\ last'.calls = <<>>
           /\ fs' = fs]_vars

\* with force_cmyk False, ensure_cmyk_asset was called with an output name
\* for a source that is no file, and returned its path
C30_Witness ==
    /\ last.op = "ensure_cmyk_asset"
    /\ ~pipeline.force_cmyk
    /\ OutputNames[last.args[3]] # None
    /\ ~Decodable(fs, Sources[last.args[1]])
    /\ last.ret = Sources[last.args[1]]

====
